---- MODULE Spec2Model ----
(***************************************************************************)
(* Model of the ONC RPC decoder of nfstest: the working-buffer cursor      *)
(* (packet/unpack.py, class Unpack) and the RPC layer built on it          *)
(* (packet/application/rpc.py, class RPC).                                 *)
(*                                                                         *)
(* A buffer is a sequence of bytes (0..255).  An unsigned 32 bit value v   *)
(* is kept as the integer v when v < 2^31 and as v - 2^32 when v >= 2^31,  *)
(* so that every value of the wire fits the integers of the checker; the   *)
(* operators ULt/UGt compare such values as the unsigned numbers they are. *)
(***************************************************************************)
EXTENDS Integers, Sequences, FiniteSets, TLC

VARIABLES
    buf,        \* Unpack.data of a stand-alone cursor
    op,         \* the last cursor operation: its name, arguments and outcome
    input,      \* the packet handed to RPC(pktt, data, proto): [data, proto]
    index,      \* pktt.index, the capture record number of the packet
    xid_map,    \* pktt._rpc_xid_map
    rpc,        \* the RPC object built from the last packet
    nfs,        \* outcome of the last decode_nfs() on that object
    lastcall    \* history: per xid, the most recent CALL that was decoded

vars == <<buf, op, input, index, xid_map, rpc, nfs, lastcall>>

(***************************************************************************)
(* Bytes and words                                                         *)
(***************************************************************************)
\* s[n:] of Python, n >= 0
Drop(s, n) == IF n >= Len(s) THEN <<>> ELSE SubSeq(s, n + 1, Len(s))

\* s[:n] of Python, n >= 0
Take(s, n) == IF n >= Len(s) THEN s ELSE SubSeq(s, 1, n)

\* F(v) with v computed once: a call's result, named and then used
Bind(v, F(_)) == CHOOSE r \in {F(b) : b \in {v}} : TRUE

\* unsigned comparison of two 32 bit values (negative = top bit set)
ULt(a, b) ==
    IF a >= 0 /\ b >= 0 THEN a < b
    ELSE IF a < 0 /\ b < 0 THEN a < b
    ELSE b < 0

UGt(a, b) == ULt(b, a)

\* v - 1 for a 32 bit value v > 0
UDec(v) == IF v = -2147483647 - 1 THEN 2147483647 ELSE v - 1

\* struct.unpack('!I', b)[0] for a 4 byte string b
U32(b) ==
    (IF b[1] >= 128 THEN b[1] - 256 ELSE b[1]) * 16777216
        + b[2] * 65536 + b[3] * 256 + b[4]

\* struct.unpack('!H', b)[0] and struct.unpack('!B', b)[0]
U16(b) == b[1] * 256 + b[2]
U8(b) == b[1]

\* the 4 bytes of a 32 bit value, big-endian (what a sender puts on the wire)
Low31(w) == IF w < 0 THEN (w + 2147483647) + 1 ELSE w
Top(w) == IF w < 0 THEN 1 ELSE 0
WordBytes(w) ==
    << Top(w) * 128 + (Low31(w) \div 16777216),
       (Low31(w) \div 65536) % 256,
       (Low31(w) \div 256) % 256,
       Low31(w) % 256 >>

RECURSIVE WordsBytes(_)
WordsBytes(ws) ==
    IF ws = <<>> THEN <<>> ELSE WordBytes(Head(ws)) \o WordsBytes(Tail(ws))

(***************************************************************************)
(* Unpack: the cursor over the working buffer.  Every operator takes the   *)
(* buffer d (self.data) and returns the new buffer in .data; .raised tells *)
(* that the call ended in an exception.                                    *)
(***************************************************************************)

\* Unpack.rawdata(size, pad): size is a 32 bit value or a small integer
rawdata(d, size, pad) ==
    IF size < 0 \/ size >= Len(d)
    THEN [buf |-> d, data |-> <<>>]
    ELSE [buf |-> SubSeq(d, 1, size),
          data |-> Drop(d, IF pad > 0
                           THEN size + (((size + pad - 1) \div pad) * pad - size)
                           ELSE size)]

\* Unpack.unpack(size, fmt): struct.unpack raises unless it gets size bytes;
\* the bytes rawdata() took are gone from the buffer either way
unpack(d, size) ==
    Bind(rawdata(d, size, 0), LAMBDA r :
        [raised |-> Len(r.buf) # size, bytes |-> r.buf, data |-> r.data])

unpack_char(d) ==
    Bind(unpack(d, 1), LAMBDA r :
        [raised |-> r.raised, val |-> IF r.raised THEN 0 ELSE U8(r.bytes),
         data |-> r.data])

unpack_short(d) ==
    Bind(unpack(d, 2), LAMBDA r :
        [raised |-> r.raised, val |-> IF r.raised THEN 0 ELSE U16(r.bytes),
         data |-> r.data])

unpack_uint(d) ==
    Bind(unpack(d, 4), LAMBDA r :
        [raised |-> r.raised, val |-> IF r.raised THEN 0 ELSE U32(r.bytes),
         data |-> r.data])

\* the 64 bit value is kept as its two 32 bit halves, high half first
unpack_uint64(d) ==
    Bind(unpack(d, 8), LAMBDA r :
        [raised |-> r.raised,
         val |-> IF r.raised THEN <<>>
                 ELSE <<U32(SubSeq(r.bytes, 1, 4)), U32(SubSeq(r.bytes, 5, 8))>>,
         data |-> r.data])

(***************************************************************************)
(* Length specs and item decoders.  Python passes either an integer or an  *)
(* unpack function as ltype, and an unpack function with keyword arguments *)
(* as unpack_item; here both are records.                                  *)
(*   ltype: [kind |-> "int", n |-> k, fn |-> ""]                           *)
(*          [kind |-> "fn",  n |-> 0, fn |-> "unpack_uint"]                *)
(*   item:  [fn |-> name, ltype |-> ltype, pad |-> p, maxcount |-> m]      *)
(* An outcome is [raised, why, out, data]: out is the value as a sequence  *)
(* of integers (the bytes of a string, the one value of an integer).       *)
(***************************************************************************)
Fixed(k) == [kind |-> "int", n |-> k, fn |-> ""]
Dyn(f) == [kind |-> "fn", n |-> 0, fn |-> f]
Item(f, lt, p, m) == [fn |-> f, ltype |-> lt, pad |-> p, maxcount |-> m]

Ok(out, d) == [raised |-> FALSE, why |-> "", out |-> out, data |-> d]
Raise(why, d) == [raised |-> TRUE, why |-> why, out |-> <<>>, data |-> d]

\* struct.error of a short read
IntOutcome(r) ==
    IF r.raised THEN Raise("struct.error", r.data) ELSE Ok(<<r.val>>, r.data)

\* a length spec that is always read from the buffer
get_ltype_prefixed(d, ltype) == unpack_uint(d)

\* Unpack._get_ltype(ltype): [raised, val, data]
get_ltype(d, ltype) ==
    IF ltype.kind = "int" THEN [raised |-> FALSE, val |-> ltype.n, data |-> d]
    ELSE IF ltype.fn = "unpack_char" THEN unpack_char(d)
    ELSE IF ltype.fn = "unpack_short" THEN unpack_short(d)
    ELSE unpack_uint(d)

\* Unpack.unpack_opaque(maxcount)
unpack_opaque(d, maxcount) ==
    Bind(unpack_uint(d), LAMBDA u :
        IF u.raised THEN Raise("struct.error", u.data)
        ELSE IF maxcount > 0 /\ UGt(u.val, maxcount)
        THEN Raise("Opaque exceeds maximum length", u.data)
        ELSE Bind(rawdata(u.data, u.val, 4), LAMBDA r : Ok(r.buf, r.data)))

\* Unpack.unpack_fopaque(size)
unpack_fopaque(d, size) ==
    Bind(rawdata(d, size, 4), LAMBDA r : Ok(r.buf, r.data))

\* Unpack.unpack_string(ltype, pad, maxcount)
unpack_string(d, ltype, pad, maxcount) ==
    Bind(get_ltype(d, ltype), LAMBDA l :
        IF l.raised THEN Raise("struct.error", l.data)
        ELSE IF maxcount > 0 /\ UGt(l.val, maxcount)
        THEN Raise("String exceeds maximum length", l.data)
        ELSE Bind(rawdata(l.data, l.val, pad), LAMBDA r : Ok(r.buf, r.data)))

\* unpack_item(self, **uargs)
CallItem(d, item) ==
    IF item.fn = "unpack_char" THEN IntOutcome(unpack_char(d))
    ELSE IF item.fn = "unpack_short" THEN IntOutcome(unpack_short(d))
    ELSE IF item.fn = "unpack_uint" THEN IntOutcome(unpack_uint(d))
    ELSE IF item.fn = "unpack_opaque" THEN unpack_opaque(d, item.maxcount)
    ELSE unpack_string(d, item.ltype, item.pad, item.maxcount)

\* The while loop of unpack_array.  [raised, why, items, data]; why = "loops"
\* (with raised = FALSE) when the loop comes back to the buffer and slen it
\* started an iteration with, and so never ends.
RECURSIVE array_loop(_, _, _, _, _, _)
array_loop(d, slen, ret, item, ltype, islist) ==
    IF ~UGt(slen, 0)
    THEN [raised |-> FALSE, why |-> "", items |-> ret, data |-> d]
    ELSE Bind(CallItem(d, item), LAMBDA it :
        IF it.raised
        THEN [raised |-> TRUE, why |-> it.why, items |-> ret, data |-> it.data]
        ELSE Bind(IF islist THEN get_ltype(it.data, ltype)
                  ELSE [raised |-> FALSE, val |-> UDec(slen), data |-> it.data],
                  LAMBDA l :
            IF l.raised
            THEN [raised |-> TRUE, why |-> "struct.error",
                  items |-> Append(ret, it.out), data |-> l.data]
            ELSE IF islist /\ l.data = d /\ l.val = slen
            THEN [raised |-> FALSE, why |-> "loops",
                  items |-> Append(ret, it.out), data |-> l.data]
            ELSE array_loop(l.data, l.val, Append(ret, it.out),
                            item, ltype, islist)))

\* Unpack.unpack_array(unpack_item, ltype, args, maxcount, islist)
unpack_array_nolimit(d, item, ltype, maxcount, islist) ==
    Bind(get_ltype(d, ltype), LAMBDA l :
        IF l.raised
        THEN [raised |-> TRUE, why |-> "struct.error", items |-> <<>>, data |-> l.data]
        ELSE array_loop(l.data, l.val, <<>>, item, ltype, islist))

unpack_array(d, item, ltype, maxcount, islist) ==
    Bind(get_ltype(d, ltype), LAMBDA l :
        IF l.raised
        THEN [raised |-> TRUE, why |-> "struct.error", items |-> <<>>, data |-> l.data]
        ELSE IF maxcount > 0 /\ UGt(l.val, maxcount)
        THEN [raised |-> TRUE, why |-> "Array exceeds maximum length",
              items |-> <<>>, data |-> l.data]
        ELSE array_loop(l.data, l.val, <<>>, item, ltype, islist))

\* a list whose flag is taken for the count of an array
unpack_list_counted(d, item, ltype) == unpack_array(d, item, ltype, 0, FALSE)

\* Unpack.unpack_list(unpack_item, ltype, args)
unpack_list(d, item, ltype) == unpack_array(d, item, ltype, 0, TRUE)

(***************************************************************************)
(* rpc_const: the values of RFC 1831 (and RFC 2203 for RPCSEC_GSS)         *)
(***************************************************************************)
CALL == 0
REPLY == 1
MSG_ACCEPTED == 0
MSG_DENIED == 1
PROG_MISMATCH == 2
RPC_MISMATCH == 0
AUTH_ERROR == 1
AUTH_NONE == 0
AUTH_SYS == 1
RPCSEC_GSS == 6
\* the keys of the dictionaries reply_stat, accept_stat, reject_stat, auth_stat
reply_stat == {0, 1}
accept_stat == 0 .. 5
reject_stat == {0, 1}
auth_stat == 0 .. 5

(***************************************************************************)
(* Objects.  A Python object is a record of all the attributes it may get  *)
(* plus .attrs, the set of names of the attributes that have been set      *)
(* (its __dict__); a value outside .attrs is 0 or empty and means nothing. *)
(***************************************************************************)
Set(o, name, v) == [o EXCEPT ![name] = v, !.attrs = @ \cup {name}]

\* a Credential; .state tells an attribute holding None ("None") from one
\* holding a Credential object ("obj") and from one never assigned ("unset")
NoCred ==
    [state |-> "unset", attrs |-> {}, flavor |-> 0, size |-> 0,
     stamp |-> 0, machine |-> <<>>, uid |-> 0, gid |-> 0, gids |-> <<>>,
     gss_version |-> 0, gss_proc |-> 0, gss_seq_num |-> 0, gss_service |-> 0,
     gss_context |-> <<>>, gss_token |-> <<>>, data |-> <<>>]

NoneCred == [NoCred EXCEPT !.state = "None"]

Credential(flavor) ==
    [NoCred EXCEPT !.state = "obj", !.attrs = {"flavor"}, !.flavor = flavor]

NoPair == [low |-> 0, high |-> 0]
NoHeader == [size |-> 0, last_fragment |-> 0]

\* the RPC object right after the assignments of __init__; .stage is
\* "none" before any packet, then how _rpc_header ended: "decoded",
\* "return" (an early return) or "raise" (an exception, caught by __init__);
\* .handed tells that the transport branch was left for line 166, and
\* .msgbuf is the buffer as it stood then, when the xid was about to be read
NewRPC(data, proto) ==
    [stage |-> "run", valid |-> FALSE, proto |-> proto, data |-> data,
     attrs |-> {}, handed |-> FALSE, msgbuf |-> <<>>,
     fragment_hdr |-> NoHeader, xid |-> 0, type |-> 0, rpc_version |-> 0,
     program |-> 0, version |-> 0, procedure |-> 0,
     credential |-> NoCred, verifier |-> NoCred,
     reply_status |-> 0, accepted_status |-> 0, prog_mismatch |-> NoPair,
     rejected_status |-> 0, rpc_mismatch |-> NoPair, auth_status |-> 0,
     call_index |-> 0]

NoRPC == [NewRPC(<<>>, 0) EXCEPT !.stage = "none"]

\* self.<name> = self.unpack_uint()
SetUint(o, name) ==
    IF o.stage # "run" THEN o
    ELSE Bind(unpack_uint(o.data), LAMBDA u :
             IF u.raised THEN [o EXCEPT !.data = u.data, !.stage = "raise"]
             ELSE [Set(o, name, u.val) EXCEPT !.data = u.data])

\* self.<name> = Prog(low = self.unpack_uint(), high = self.unpack_uint())
SetPair(o, name) ==
    IF o.stage # "run" THEN o
    ELSE Bind(unpack_uint(o.data), LAMBDA l :
             IF l.raised THEN [o EXCEPT !.data = l.data, !.stage = "raise"]
             ELSE Bind(unpack_uint(l.data), LAMBDA h :
                 IF h.raised THEN [o EXCEPT !.data = h.data, !.stage = "raise"]
                 ELSE [Set(o, name, [low |-> l.val, high |-> h.val])
                           EXCEPT !.data = h.data]))

Return(o) == IF o.stage = "run" THEN [o EXCEPT !.stage = "return"] ELSE o

(***************************************************************************)
(* RPC._rpc_credential(verifier): [raised, cred, data]                     *)
(***************************************************************************)
\* ret.<name> = self.unpack_uint()
CredUint(c, name) ==
    IF c.raised THEN c
    ELSE Bind(unpack_uint(c.data), LAMBDA u :
             IF u.raised THEN [c EXCEPT !.raised = TRUE, !.data = u.data]
             ELSE [c EXCEPT !.cred = Set(@, name, u.val), !.data = u.data])

\* ret.<name> = self.unpack_opaque(maxcount)
CredOpaque(c, name, maxcount) ==
    IF c.raised THEN c
    ELSE Bind(unpack_opaque(c.data, maxcount), LAMBDA r :
             IF r.raised THEN [c EXCEPT !.raised = TRUE, !.data = r.data]
             ELSE [c EXCEPT !.cred = Set(@, name, r.out), !.data = r.data])

\* ret.gids = self.unpack_array(maxcount=16): the gids as a sequence of values
RECURSIVE Flatten(_)
Flatten(items) ==
    IF items = <<>> THEN <<>> ELSE Head(items) \o Flatten(Tail(items))

CredGids(c, maxcount) ==
    IF c.raised THEN c
    ELSE Bind(unpack_array(c.data, Item("unpack_uint", Dyn("unpack_uint"), 0, 0),
                           Dyn("unpack_uint"), maxcount, FALSE), LAMBDA r :
             IF r.raised THEN [c EXCEPT !.raised = TRUE, !.data = r.data]
             ELSE [c EXCEPT !.cred = Set(@, "gids", Flatten(r.items)),
                            !.data = r.data])

MachineMax == 255
GidsMax == 16

\* the flavor f is read; size is the next word, read at line 414 without
\* removing bytes from the buffer
CredBody(f, size, c0, verifier) ==
    IF ULt(Len(f.data), size)
    THEN [raised |-> FALSE, cred |-> NoneCred, data |-> f.data]
    ELSE IF f.val = AUTH_SYS
    THEN CredGids(
             CredUint(CredUint(
                 CredOpaque(CredUint(CredUint(c0, "size"), "stamp"),
                            "machine", MachineMax),
                 "uid"), "gid"),
             GidsMax)
    ELSE IF f.val = RPCSEC_GSS
    THEN IF ~verifier
         THEN CredOpaque(
                  CredUint(CredUint(CredUint(CredUint(CredUint(c0,
                      "size"), "gss_version"), "gss_proc"), "gss_seq_num"),
                      "gss_service"),
                  "gss_context", 0)
         ELSE CredOpaque([c0 EXCEPT !.cred = Set(@, "size", size)],
                         "gss_token", 0)
    ELSE Bind(CredUint(c0, "size"), LAMBDA s :
             Bind(rawdata(s.data, size, 0), LAMBDA r :
                 [s EXCEPT !.cred = Set(@, "data", r.buf), !.data = r.data]))

rpc_credential(d, verifier) ==
    IF Len(d) < 8 THEN [raised |-> FALSE, cred |-> NoneCred, data |-> d]
    ELSE Bind(unpack_uint(d), LAMBDA f :
             CredBody(f, U32(SubSeq(f.data, 1, 4)),
                      [raised |-> FALSE, cred |-> Credential(f.val),
                       data |-> f.data],
                      verifier))

\* self.<name> = self._rpc_credential(verifier)
SetCred(o, name, verifier) ==
    IF o.stage # "run" THEN o
    ELSE Bind(rpc_credential(o.data, verifier), LAMBDA c :
             IF c.raised THEN [o EXCEPT !.data = c.data, !.stage = "raise"]
             ELSE [Set(o, name, c.cred) EXCEPT !.data = c.data])

(***************************************************************************)
(* RPC._rpc_header                                                         *)
(***************************************************************************)
\* the TCP branch: the loop over the record-marking headers
RECURSIVE fragments(_, _)
\* the loop without the test of a size of zero
fragments_nozero(o, save_data) ==
    Bind(unpack_uint(o.data), LAMBDA u :
    Bind([size |-> Low31(u.val) + Len(save_data), last_fragment |-> Top(u.val)],
         LAMBDA hdr :
    Bind([Set(o, "fragment_hdr", hdr) EXCEPT !.data = u.data], LAMBDA o1 :
        IF u.raised THEN [o EXCEPT !.data = u.data, !.stage = "raise"]
        ELSE IF hdr.last_fragment = 0 /\ hdr.size < Len(o1.data)
        THEN fragments([o1 EXCEPT !.data = Drop(o1.data, hdr.size)],
                       save_data \o Take(o1.data, hdr.size))
        ELSE [o1 EXCEPT !.data = save_data \o o1.data])))

\* one pass through the loop that reads the header as line 414 reads a size,
\* without taking it off the buffer, and has no test of a size of zero
fragment_step_peek(o, save_data) ==
    Bind(unpack_uint(o.data), LAMBDA u :
    Bind([size |-> Low31(u.val) + Len(save_data), last_fragment |-> Top(u.val)],
         LAMBDA hdr :
    Bind(Set(o, "fragment_hdr", hdr), LAMBDA o1 :
        IF u.raised
        THEN [obj |-> [o EXCEPT !.data = u.data, !.stage = "raise"],
              save_data |-> save_data, again |-> FALSE]
        ELSE IF hdr.last_fragment = 0 /\ hdr.size < Len(o1.data)
        THEN [obj |-> [o1 EXCEPT !.data = Drop(o1.data, hdr.size)],
              save_data |-> save_data \o Take(o1.data, hdr.size),
              again |-> TRUE]
        ELSE [obj |-> [o1 EXCEPT !.data = save_data \o o1.data],
              save_data |-> save_data, again |-> FALSE])))

\* lines 143-158, one pass through the body of the loop: [obj, save_data,
\* again], again being FALSE when the pass leaves the loop
fragment_step(o, save_data) ==
    \* psize = self.unpack_uint()
    Bind(unpack_uint(o.data), LAMBDA u :
    Bind([size |-> Low31(u.val) + Len(save_data), last_fragment |-> Top(u.val)],
         LAMBDA hdr :
    Bind([Set(o, "fragment_hdr", hdr) EXCEPT !.data = u.data], LAMBDA o1 :
        IF u.raised
        THEN [obj |-> [o EXCEPT !.data = u.data, !.stage = "raise"],
              save_data |-> save_data, again |-> FALSE]
        ELSE IF hdr.size = 0
        THEN [obj |-> Return(o1), save_data |-> save_data, again |-> FALSE]
        ELSE IF hdr.last_fragment = 0 /\ hdr.size < Len(o1.data)
        THEN \* save RPC fragment
             [obj |-> [o1 EXCEPT !.data = Drop(o1.data, hdr.size)],
              save_data |-> save_data \o Take(o1.data, hdr.size),
              again |-> TRUE]
        ELSE \* concatenate RPC fragments
             [obj |-> [o1 EXCEPT !.data = save_data \o o1.data],
              save_data |-> save_data, again |-> FALSE])))

\* lines 141-158: the passes of the loop, one after the other
fragments(o, save_data) ==
    Bind(fragment_step(o, save_data), LAMBDA r :
        IF r.again THEN fragments(r.obj, r.save_data) ELSE r.obj)

TCP == 6
UDP == 17

\* lines 139-163: what is left is the message the xid is read from
transport(o) ==
    IF o.proto = TCP THEN fragments(o, <<>>)
    ELSE IF o.proto = UDP THEN o
    ELSE Return(o)

\* lines 169-180
call_body(o) ==
    Bind(SetCred(SetUint(SetUint(SetUint(SetUint(o,
             "rpc_version"), "program"), "version"), "procedure"),
             "credential", FALSE), LAMBDA a :
    Bind(SetCred(IF a.stage = "run" /\ a.credential.state = "None"
                 THEN Return(a) ELSE a,
                 "verifier", TRUE), LAMBDA c :
        IF c.stage = "run"
           /\ (c.rpc_version # 2
               \/ (c.credential.flavor \in {0, 1} /\ c.verifier.state = "None"))
        THEN Return(c) ELSE c))

\* lines 184-196
accepted_body(o) ==
    Bind(SetCred(o, "verifier", TRUE), LAMBDA a :
    Bind(SetUint(IF a.stage = "run" /\ a.verifier.state = "None"
                 THEN Return(a) ELSE a,
                 "accepted_status"), LAMBDA c :
        IF c.stage # "run" THEN c
        ELSE IF c.accepted_status = PROG_MISMATCH THEN SetPair(c, "prog_mismatch")
        ELSE IF c.accepted_status \notin accept_stat THEN Return(c)
        ELSE c))

\* mutant: an AUTH_ERROR reply is taken with whatever auth_status it carries
denied_body_anystat(o) ==
    Bind(SetUint(o, "rejected_status"), LAMBDA a :
        IF a.stage # "run" THEN a
        ELSE IF a.rejected_status = RPC_MISMATCH THEN SetPair(a, "rpc_mismatch")
        ELSE IF a.rejected_status = AUTH_ERROR THEN SetUint(a, "auth_status")
        ELSE IF a.rejected_status \notin reject_stat THEN Return(a)
        ELSE a)

\* lines 197-211
denied_body(o) ==
    Bind(SetUint(o, "rejected_status"), LAMBDA a :
        IF a.stage # "run" THEN a
        ELSE IF a.rejected_status = RPC_MISMATCH THEN SetPair(a, "rpc_mismatch")
        ELSE IF a.rejected_status = AUTH_ERROR
        THEN Bind(SetUint(a, "auth_status"), LAMBDA b :
                 IF b.stage = "run" /\ b.auth_status \notin auth_stat
                 THEN Return(b) ELSE b)
        ELSE IF a.rejected_status \notin reject_stat THEN Return(a)
        ELSE a)

\* lines 181-214
reply_body(o) ==
    Bind(SetUint(o, "reply_status"), LAMBDA a :
        IF a.stage # "run" THEN a
        ELSE IF a.reply_status = MSG_ACCEPTED THEN accepted_body(a)
        ELSE IF a.reply_status = MSG_DENIED THEN denied_body(a)
        ELSE IF a.reply_status \notin reply_stat THEN Return(a)
        ELSE a)

\* lines 137-218: the object when the header has been read; .valid is _rpc
header(o) ==
    Bind(transport(o), LAMBDA t :
    Bind(SetUint(SetUint(IF t.stage = "run"
                         THEN [t EXCEPT !.handed = TRUE, !.msgbuf = t.data]
                         ELSE t,
                         "xid"), "type"), LAMBDA a :
    Bind(IF a.stage # "run" THEN a
         ELSE IF a.type = CALL THEN call_body(a)
         ELSE IF a.type = REPLY THEN reply_body(a)
         ELSE Return(a), LAMBDA b :
        IF b.stage = "run" THEN [b EXCEPT !.stage = "decoded", !.valid = TRUE]
        ELSE b)))

(***************************************************************************)
(* The xid map (lines 219-253).  pktt._rpc_xid_map is a function from the  *)
(* xids it holds to entries; an entry is a dictionary, kept as a record    *)
(* with .keys, the set of the keys it holds.  An attribute that is not set *)
(* and an empty dictionary are the same to line 221.                       *)
(***************************************************************************)
NoMap == [x \in {} |-> 0]

NoEntry ==
    [keys |-> {}, program |-> 0, version |-> 0, procedure |-> 0,
     call_index |-> 0, flavor |-> 0, gss_proc |-> 0, gss_service |-> 0,
     gss_version |-> 0, reply_index |-> 0]

Put(e, key, v) == [e EXCEPT ![key] = v, !.keys = @ \cup {key}]

\* lines 226-228
new_xid(map, xid) ==
    IF xid \in DOMAIN map THEN map ELSE (xid :> NoEntry) @@ map

\* lines 231-239: the entry after a CALL
call_entry_keep(e, o, idx) ==
    IF "program" \in e.keys THEN e
    ELSE Put(Put(Put(Put(Put(e, "program", o.program), "version", o.version),
             "procedure", o.procedure), "call_index", idx),
             "flavor", o.credential.flavor)

call_entry(e, o, idx) ==
    Bind(Put(Put(Put(Put(Put(e,
             "program", o.program), "version", o.version),
             "procedure", o.procedure), "call_index", idx),
             "flavor", o.credential.flavor), LAMBDA c :
        IF o.credential.flavor = RPCSEC_GSS
        THEN Put(Put(Put(c, "gss_proc", o.credential.gss_proc),
                 "gss_service", o.credential.gss_service),
                 "gss_version", o.credential.gss_version)
        ELSE c)

\* mutant: the reply takes the fields of the entry whether it holds them or not
reply_lookup_nocheck(e, o, idx) ==
    [obj |-> Set(Set(Set(Set(o, "program", e.program), "version", e.version),
                 "procedure", e.procedure), "call_index", e.call_index),
     entry |-> Put(e, "reply_index", idx)]

\* a lookup that copies the gss fields of the entry whatever its flavor
reply_lookup_anygss(e, o, idx) ==
    LET k1 == "program" \in e.keys
        k2 == k1 /\ "version" \in e.keys
        k3 == k2 /\ "procedure" \in e.keys
        k4 == k3 /\ "call_index" \in e.keys
        k5 == k4 /\ "flavor" \in e.keys
        gss == k5
        g1 == gss /\ "gss_proc" \in e.keys /\ o.verifier.state = "obj"
        g2 == g1 /\ "gss_service" \in e.keys
        g3 == g2 /\ "gss_version" \in e.keys
        k6 == k5 /\ (gss => g3)
        o1 == IF k1 THEN Set(o, "program", e.program) ELSE o
        o2 == IF k2 THEN Set(o1, "version", e.version) ELSE o1
        o3 == IF k3 THEN Set(o2, "procedure", e.procedure) ELSE o2
        o4 == IF k4 THEN Set(o3, "call_index", e.call_index) ELSE o3
        v1 == IF g1 THEN Set(o.verifier, "gss_proc", e.gss_proc) ELSE o.verifier
        v2 == IF g2 THEN Set(v1, "gss_service", e.gss_service) ELSE v1
        v3 == IF g3 THEN Set(v2, "gss_version", e.gss_version) ELSE v2
    IN  [obj |-> [o4 EXCEPT !.verifier = v3],
         entry |-> IF k6 THEN Put(e, "reply_index", idx) ELSE e]

\* lines 241-253: each line of the try block runs only if no line before it
\* raised (a key the entry lacks, or a verifier that is no object)
reply_lookup(e, o, idx) ==
    LET k1 == "program" \in e.keys
        k2 == k1 /\ "version" \in e.keys
        k3 == k2 /\ "procedure" \in e.keys
        k4 == k3 /\ "call_index" \in e.keys
        k5 == k4 /\ "flavor" \in e.keys
        gss == k5 /\ e.flavor = RPCSEC_GSS
        g1 == gss /\ "gss_proc" \in e.keys /\ o.verifier.state = "obj"
        g2 == g1 /\ "gss_service" \in e.keys
        g3 == g2 /\ "gss_version" \in e.keys
        k6 == k5 /\ (gss => g3)
        o1 == IF k1 THEN Set(o, "program", e.program) ELSE o
        o2 == IF k2 THEN Set(o1, "version", e.version) ELSE o1
        o3 == IF k3 THEN Set(o2, "procedure", e.procedure) ELSE o2
        o4 == IF k4 THEN Set(o3, "call_index", e.call_index) ELSE o3
        v1 == IF g1 THEN Set(o.verifier, "gss_proc", e.gss_proc) ELSE o.verifier
        v2 == IF g2 THEN Set(v1, "gss_service", e.gss_service) ELSE v1
        v3 == IF g3 THEN Set(v2, "gss_version", e.gss_version) ELSE v2
    IN  [obj |-> [o4 EXCEPT !.verifier = v3],
         entry |-> IF k6 THEN Put(e, "reply_index", idx) ELSE e]

\* lines 218-253 for a decoded object: [obj, map]
xid_update(o, map, idx) ==
    Bind(new_xid(map, o.xid), LAMBDA m1 :
        IF o.type = CALL
        THEN [obj |-> o,
              map |-> [m1 EXCEPT ![o.xid] = call_entry(@, o, idx)]]
        ELSE Bind(reply_lookup(m1[o.xid], o, idx), LAMBDA r :
                 [obj |-> r.obj, map |-> [m1 EXCEPT ![o.xid] = r.entry]]))

\* RPC.__init__ with _rpc_header: [obj, map]
\* a constructor that updates the xid map for every message it read a type of
rpc_init_always(data, proto, map, idx) ==
    Bind(header(NewRPC(data, proto)), LAMBDA h :
        IF h.valid \/ "type" \in h.attrs
        THEN xid_update(h, map, idx) ELSE [obj |-> h, map |-> map])

rpc_init(data, proto, map, idx) ==
    Bind(header(NewRPC(data, proto)), LAMBDA h :
        IF h.valid THEN xid_update(h, map, idx) ELSE [obj |-> h, map |-> map])

(***************************************************************************)
(* RPC.decode_nfs.  The NFS codec (FancyNFS4Unpacker) and the two GSS      *)
(* hooks are outside this code: the hooks are taken as the no-op default   *)
(* and logged, the codec's outcome is an input: it raises, or it returns   *)
(* an object with its position at pos bytes.                               *)
(***************************************************************************)
\* GSS.decode_gss_data() and GSS.decode_gss_checksum(), the hooks of the
\* security layer, as the default that does nothing to the object
decode_gss_data(o) == o
decode_gss_checksum(o) == o

NFS_PROGRAM == 100003
CB_LOW == 1073741824
CB_HIGH == 1610612736

\* .raised: the call ended in an exception that reached the caller
NoNfs ==
    [called |-> FALSE, raised |-> FALSE, ret |-> "None", entry |-> "",
     hooks |-> <<>>, codec_raised |-> FALSE, before |-> NoRPC]

\* mutant: the buffer is moved past the payload before the codec has run
decode_nfs_advance(obj, codec) ==
    LET o == obj
        none == [raised |-> FALSE, ret |-> "None", entry |-> "",
                 hooks |-> <<"decode_gss_data">>,
                 codec_raised |-> FALSE, obj |-> o]
        cb_flag == o.program # NFS_PROGRAM
    IN  IF ~({"program", "version", "procedure"} \subseteq o.attrs) THEN none
        ELSE IF Len(o.data) = 0 \/ o.procedure = 0 \/ o.version = 0 THEN none
        ELSE IF o.program # NFS_PROGRAM
                /\ ~(o.program >= CB_LOW /\ o.program < CB_HIGH)
        THEN none
        ELSE IF ~(o.procedure = 1
                  /\ ((~cb_flag /\ o.version = 4) \/ (cb_flag /\ o.version = 1)))
        THEN none
        ELSE IF codec.raises
        THEN [none EXCEPT !.entry = "unpack", !.codec_raised = TRUE,
                          !.obj = [o EXCEPT !.data = <<>>]]
        ELSE [raised |-> FALSE, ret |-> "obj", entry |-> "unpack",
              hooks |-> <<"decode_gss_data", "decode_gss_checksum">>,
              codec_raised |-> FALSE,
              obj |-> [o EXCEPT !.data = Drop(o.data, codec.pos)]]

\* decode_nfs that takes every program outside 100003 for a callback program
decode_nfs_anycb(obj, codec) ==
    LET o == decode_gss_data(obj)
        none == [raised |-> FALSE, ret |-> "None", entry |-> "",
                 hooks |-> <<"decode_gss_data">>,
                 codec_raised |-> FALSE, obj |-> o]
        cb_flag == o.program # NFS_PROGRAM
        entry == IF o.type = CALL
                 THEN IF cb_flag THEN "unpack_CB_COMPOUND4args"
                      ELSE "unpack_COMPOUND4args"
                 ELSE IF cb_flag THEN "unpack_CB_COMPOUND4res"
                      ELSE "unpack_COMPOUND4res"
    IN  IF ~({"program", "version", "procedure"} \subseteq o.attrs) THEN none
        ELSE IF Len(o.data) = 0 \/ o.procedure = 0 \/ o.version = 0 THEN none
        ELSE IF ~(o.procedure = 1
                  /\ ((~cb_flag /\ o.version = 4) \/ (cb_flag /\ o.version = 1)))
        THEN none
        ELSE IF codec.raises
        THEN [none EXCEPT !.entry = entry, !.codec_raised = TRUE]
        ELSE [raised |-> FALSE, ret |-> "obj", entry |-> entry,
              hooks |-> <<"decode_gss_data", "decode_gss_checksum">>,
              codec_raised |-> FALSE,
              obj |-> [o EXCEPT !.data = Drop(o.data, codec.pos)]]

\* decode_nfs that dispatches on procedure 1 whatever the version
decode_nfs_anyversion(obj, codec) ==
    LET o == decode_gss_data(obj)
        none == [raised |-> FALSE, ret |-> "None", entry |-> "",
                 hooks |-> <<"decode_gss_data">>,
                 codec_raised |-> FALSE, obj |-> o]
        cb_flag == o.program # NFS_PROGRAM
        entry == IF o.type = CALL
                 THEN IF cb_flag THEN "unpack_CB_COMPOUND4args"
                      ELSE "unpack_COMPOUND4args"
                 ELSE IF cb_flag THEN "unpack_CB_COMPOUND4res"
                      ELSE "unpack_COMPOUND4res"
    IN  IF ~({"program", "version", "procedure"} \subseteq o.attrs) THEN none
        ELSE IF Len(o.data) = 0 \/ o.procedure = 0 \/ o.version = 0 THEN none
        ELSE IF o.program # NFS_PROGRAM
                /\ ~(o.program >= CB_LOW /\ o.program < CB_HIGH)
        THEN none
        ELSE IF ~(o.procedure = 1)
        THEN none
        ELSE IF codec.raises
        THEN [none EXCEPT !.entry = entry, !.codec_raised = TRUE]
        ELSE [raised |-> FALSE, ret |-> "obj", entry |-> entry,
              hooks |-> <<"decode_gss_data", "decode_gss_checksum">>,
              codec_raised |-> FALSE,
              obj |-> decode_gss_checksum(
                          [o EXCEPT !.data = Drop(o.data, codec.pos)])]

\* lines 347-406: [raised, ret, entry, hooks, codec_raised, obj]; a missing
\* attribute (lines 350-356) and a failure of the codec (lines 374-405) are
\* caught, and nothing else in the method raises
decode_nfs(obj, codec) ==
    LET o == decode_gss_data(obj)
        none == [raised |-> FALSE, ret |-> "None", entry |-> "",
                 hooks |-> <<"decode_gss_data">>,
                 codec_raised |-> FALSE, obj |-> o]
        cb_flag == o.program # NFS_PROGRAM
        entry == IF o.type = CALL
                 THEN IF cb_flag THEN "unpack_CB_COMPOUND4args"
                      ELSE "unpack_COMPOUND4args"
                 ELSE IF cb_flag THEN "unpack_CB_COMPOUND4res"
                      ELSE "unpack_COMPOUND4res"
    IN  IF ~({"program", "version", "procedure"} \subseteq o.attrs) THEN none
        ELSE IF Len(o.data) = 0 \/ o.procedure = 0 \/ o.version = 0 THEN none
        ELSE IF o.program # NFS_PROGRAM
                /\ ~(o.program >= CB_LOW /\ o.program < CB_HIGH)
        THEN none
        ELSE IF ~(o.procedure = 1
                  /\ ((~cb_flag /\ o.version = 4) \/ (cb_flag /\ o.version = 1)))
        THEN none
        ELSE IF codec.raises
        THEN [none EXCEPT !.entry = entry, !.codec_raised = TRUE]
        ELSE [raised |-> FALSE, ret |-> "obj", entry |-> entry,
              hooks |-> <<"decode_gss_data", "decode_gss_checksum">>,
              codec_raised |-> FALSE,
              obj |-> decode_gss_checksum(
                          [o EXCEPT !.data = Drop(o.data, codec.pos)])]

\* what the codec may do with the buffer d it is given
CodecOutcomes(d) ==
    {[raises |-> TRUE, pos |-> 0]}
        \cup {[raises |-> FALSE, pos |-> p] : p \in {4, Len(d)} \cap (0 .. Len(d))}

(***************************************************************************)
(* The stand-alone cursor: buffers and arguments of the operations         *)
(***************************************************************************)
MaxWords == 3

\* 0x80000000: the smallest value with the top bit set
TopWord == -2147483647 - 1

\* 0x00020001: a word whose first two bytes are a nonzero short
ShortWord == 2 * 65536 + 1

WordVals == {0, 1, 2, ShortWord, TopWord}

WordSeqs == UNION {[1 .. k -> WordVals] : k \in 0 .. MaxWords}

\* every prefix, cut at any byte, of up to MaxWords words
Buffers == {Take(WordsBytes(ws), n) : ws \in WordSeqs, n \in 0 .. 4 * MaxWords}

\* longer buffers: lists and arrays of the two items 7 and 9, a word after them
LongBuffers ==
    {WordsBytes(<<f, 7, g, 9, 0, 5>>) : f \in {1, 2, TopWord}, g \in {1, 2}}
    \cup {WordsBytes(ws) : ws \in {<<7, 9>>, <<7, 9, 5>>, <<2, 7, 9, 5>>,
                                    <<1, 7, 0, 5>>, <<0, 7, 0, 5>>}}

Sizes == {0, 1, 2, 4, 5}
Pads == {0, 4}
Maxes == {0, 1, 2}
LTypes == {Dyn("unpack_uint"), Dyn("unpack_short"), Fixed(2)}
Items ==
    {Item("unpack_uint", Dyn("unpack_uint"), 0, 0),
     Item("unpack_opaque", Dyn("unpack_uint"), 0, 0),
     Item("unpack_opaque", Dyn("unpack_uint"), 0, 1),
     Item("unpack_string", Dyn("unpack_short"), 4, 0)}

\* a string of a fixed length, ltype given as an integer
FixedStrings == {Item("unpack_string", Fixed(2), 0, 0)}

NoItem == Item("", Fixed(0), 0, 0)

NoOp ==
    [name |-> "", pre |-> <<>>, raised |-> FALSE, why |-> "", out |-> <<>>,
     items |-> <<>>, size |-> 0, pad |-> 0, maxcount |-> 0,
     ltype |-> Fixed(0), item |-> NoItem]

\* the cursor after a call with outcome r = [raised, why, out, data]; one call
\* is made on each buffer (a cursor holds nothing but its buffer)
Called(name, r, args) ==
    /\ op.name = ""
    /\ buf' = r.data
    /\ op' = [args EXCEPT !.name = name, !.pre = buf, !.raised = r.raised,
                          !.why = r.why, !.out = r.out]
    /\ UNCHANGED <<input, index, xid_map, rpc, nfs, lastcall>>

\* the same for unpack_array and unpack_list, r = [raised, why, items, data]
CalledArray(name, r, args) ==
    /\ op.name = ""
    /\ buf' = r.data
    /\ op' = [args EXCEPT !.name = name, !.pre = buf, !.raised = r.raised,
                          !.why = r.why, !.items = r.items]
    /\ UNCHANGED <<input, index, xid_map, rpc, nfs, lastcall>>

Rawdata ==
    \E size \in Sizes, pad \in Pads :
        LET r == rawdata(buf, size, pad)
        IN  Called("rawdata", Ok(r.buf, r.data),
                   [NoOp EXCEPT !.size = size, !.pad = pad])

UnpackChar == Called("unpack_char", IntOutcome(unpack_char(buf)), NoOp)

UnpackShort == Called("unpack_short", IntOutcome(unpack_short(buf)), NoOp)

UnpackUint == Called("unpack_uint", IntOutcome(unpack_uint(buf)), NoOp)

UnpackUint64 ==
    LET r == unpack_uint64(buf)
    IN  Called("unpack_uint64",
               IF r.raised THEN Raise("struct.error", r.data) ELSE Ok(r.val, r.data),
               NoOp)

UnpackOpaque ==
    \E maxcount \in Maxes :
        Called("unpack_opaque", unpack_opaque(buf, maxcount),
               [NoOp EXCEPT !.maxcount = maxcount])

UnpackFopaque ==
    \E size \in Sizes :
        Called("unpack_fopaque", unpack_fopaque(buf, size),
               [NoOp EXCEPT !.size = size, !.pad = 4])

UnpackString ==
    \E ltype \in LTypes, pad \in Pads, maxcount \in Maxes :
        Called("unpack_string", unpack_string(buf, ltype, pad, maxcount),
               [NoOp EXCEPT !.ltype = ltype, !.pad = pad, !.maxcount = maxcount])

UnpackArray ==
    \E item \in Items \cup FixedStrings, ltype \in LTypes, maxcount \in Maxes :
        \* an item that cannot fail goes with an integer for ltype, so that
        \* the number of passes does not come from a word of the buffer
        /\ item \in FixedStrings => ltype.kind = "int"
        /\ CalledArray("unpack_array", unpack_array(buf, item, ltype, maxcount, FALSE),
                    [NoOp EXCEPT !.item = item, !.ltype = ltype,
                                 !.maxcount = maxcount])

UnpackList ==
    \E item \in Items \cup FixedStrings, ltype \in LTypes :
        /\ item \in FixedStrings => ltype.kind = "int"
        /\ CalledArray("unpack_list", unpack_list(buf, item, ltype),
                       [NoOp EXCEPT !.item = item, !.ltype = ltype])

InitUnpack ==
    /\ buf \in Buffers \cup LongBuffers
    /\ op = NoOp
    /\ input = [data |-> <<>>, proto |-> 0]
    /\ index = 0
    /\ xid_map = NoMap
    /\ rpc = NoRPC
    /\ nfs = NoNfs
    /\ lastcall = NoMap

NextUnpack ==
    \/ Rawdata
    \/ UnpackChar
    \/ UnpackShort
    \/ UnpackUint
    \/ UnpackUint64
    \/ UnpackOpaque
    \/ UnpackFopaque
    \/ UnpackString
    \/ UnpackArray
    \/ UnpackList

SpecUnpack == InitUnpack /\ [][NextUnpack]_vars

(***************************************************************************)
(* Packets.  What a sender puts on the wire, as sequences of 32 bit words; *)
(* the inputs of the decoder are their bytes, whole or cut short.          *)
(***************************************************************************)
\* a record-marking header and a record (header and payload bytes)
FragHdr(last, len) == IF last = 1 THEN (len - 2147483647) - 1 ELSE len
Frag(last, payload) == WordBytes(FragHdr(last, Len(payload))) \o payload

\* credentials and verifiers: flavor, size, body
CredNone == <<AUTH_NONE, 0>>
CredSys == <<AUTH_SYS, 28, 5, 2, 1633812480, 3, 3, 1, 8>>
CredSysManyGids == <<AUTH_SYS, 20, 5, 0, 3, 3, 17>>
CredGss(proc, service) == <<RPCSEC_GSS, 20, 1, proc, 7, service, 0>>
VerfGss == <<RPCSEC_GSS, 4, 9>>
CredOther == <<9, 4, 77>>
CredShort == <<9, 8, 77>>
CredTooBig == <<9, 64, 77>>

CallWords(xid, rpcvers, prog, vers, proc, cred, verf, payload) ==
    <<xid, CALL, rpcvers, prog, vers, proc>> \o cred \o verf \o payload

AcceptedWords(xid, verf, stat, rest) ==
    <<xid, REPLY, MSG_ACCEPTED>> \o verf \o <<stat>> \o rest

DeniedWords(xid, stat, rest) == <<xid, REPLY, MSG_DENIED, stat>> \o rest

\* 0x50000001, a program of the transient range
CB_PROGRAM == CB_LOW + 268435457

\* (program, version, procedure)
Triples ==
    {<<NFS_PROGRAM, 4, 1>>, <<CB_PROGRAM, 1, 1>>, <<NFS_PROGRAM, 3, 1>>,
     <<CB_PROGRAM, 4, 1>>, <<NFS_PROGRAM, 4, 0>>, <<7, 4, 1>>, <<7, 1, 1>>}

Payload == <<42, 43>>

HeaderCalls ==
    {CallWords(1, rv, NFS_PROGRAM, 4, 1, cred, verf, Payload) :
        rv \in {2, 3},
        cred \in {CredNone, CredSys, CredSysManyGids, CredGss(0, 1), CredOther,
                  CredShort, CredTooBig},
        verf \in {CredNone, VerfGss, CredTooBig, <<>>}}
    \cup {CallWords(1, 2, t[1], t[2], t[3], CredNone, CredNone, pl) :
            t \in Triples, pl \in {<<>>, Payload}}

HeaderReplies ==
    {AcceptedWords(1, verf, st[1], st[2] \o Payload) :
        verf \in {CredNone, VerfGss, CredTooBig},
        st \in {<<0, <<>>>>, <<PROG_MISMATCH, <<2, 4>>>>, <<5, <<>>>>, <<6, <<>>>>}}
    \cup {DeniedWords(1, st[1], st[2]) :
            st \in {<<RPC_MISMATCH, <<2, 2>>>>, <<AUTH_ERROR, <<0>>>>,
                    <<AUTH_ERROR, <<5>>>>, <<AUTH_ERROR, <<6>>>>, <<2, <<>>>>,
                    <<2, <<1, 1>>>>}}
    \cup {<<1, REPLY, 2, 0, 0>>, <<1, 2, 2, NFS_PROGRAM, 4, 1, 0, 0, 0, 0>>}

HeaderWords == HeaderCalls \cup HeaderReplies

\* all cuts of a message at an even number of bytes, and the whole message
Cuts(b) == {Take(b, n) : n \in {k \in 0 .. Len(b) : k % 2 = 0}}

\* a message as k records: the cut points are word counts
Split2(b, i) == Frag(0, Take(b, 4 * i)) \o Frag(1, Drop(b, 4 * i))
Split3(b, i, j) ==
    Frag(0, Take(b, 4 * i)) \o Frag(0, SubSeq(b, 4 * i + 1, 4 * j))
        \o Frag(1, Drop(b, 4 * j))

BaseCall == WordsBytes(CallWords(1, 2, NFS_PROGRAM, 4, 1, CredNone, CredNone, Payload))
BaseReply == WordsBytes(AcceptedWords(1, CredNone, 0, Payload))

TcpStreams ==
    {Frag(1, WordsBytes(w)) : w \in HeaderWords}
    \cup {Frag(0, WordsBytes(w)) : w \in {CallWords(1, 2, NFS_PROGRAM, 4, 1,
                                            CredNone, CredNone, Payload)}}
    \cup {Split2(b, i) : b \in {BaseCall, BaseReply}, i \in 0 .. 4}
    \cup {Split3(b, i, j) : b \in {BaseCall, BaseReply}, i \in 1 .. 2, j \in 3 .. 4}
    \cup {WordBytes(FragHdr(1, 0)) \o BaseCall, WordBytes(FragHdr(0, 64)) \o BaseCall}
    \cup Cuts(Frag(1, BaseCall))
    \cup Cuts(Split2(BaseReply, 2))

HeaderInputs ==
    {[data |-> d, proto |-> UDP] : d \in UNION {Cuts(WordsBytes(w)) : w \in HeaderWords}}
    \cup {[data |-> d, proto |-> TCP] : d \in TcpStreams}
    \cup {[data |-> d, proto |-> 1] : d \in {BaseCall, BaseReply, <<>>}}

(***************************************************************************)
(* One packet: RPC(pktt, data, proto), then decode_nfs() on the object     *)
(***************************************************************************)
\* the most recent decoded CALL of each xid
Remember(o, idx) ==
    IF o.valid /\ o.type = CALL
    THEN (o.xid :> [program |-> o.program, version |-> o.version,
                    procedure |-> o.procedure, index |-> idx,
                    credential |-> o.credential]) @@ lastcall
    ELSE lastcall

RPCInit(pkt, idx) ==
    \E r \in {rpc_init(pkt.data, pkt.proto, xid_map, idx)} :
        /\ rpc' = r.obj
        /\ xid_map' = r.map
        /\ lastcall' = Remember(r.obj, idx)
        /\ nfs' = NoNfs

DecodeNfs ==
    /\ rpc.stage # "none"
    /\ \E codec \in CodecOutcomes(rpc.data) :
           \E r \in {decode_nfs(rpc, codec)} :
               /\ rpc' = r.obj
               /\ nfs' = [called |-> TRUE, raised |-> r.raised,
                          ret |-> r.ret, entry |-> r.entry,
                          hooks |-> r.hooks, codec_raised |-> r.codec_raised,
                          before |-> rpc]
    /\ UNCHANGED <<buf, op, input, index, xid_map, lastcall>>

\* the TCP loop on its own, a pass at a time: rpc is the object, buf is
\* save_data, op.name is "while" as long as control is in the loop
MaxFrags == 3

\* a record-marking header (last or not, size 0, 1 or 4) and 1 or 4 bytes
FragChunks ==
    {WordBytes(FragHdr(last, n)) \o [i \in 1 .. k |-> 0] :
        last \in {0, 1}, n \in {0, 1, 4}, k \in {1, 4}}

\* up to k of them in a row
RECURSIVE FragStreams(_)
FragStreams(k) ==
    IF k = 0 THEN {<<>>}
    ELSE {<<>>} \cup {c \o d : c \in FragChunks, d \in FragStreams(k - 1)}

InitFragments ==
    /\ buf = <<>>
    /\ op = [NoOp EXCEPT !.name = "while"]
    /\ input \in {[data |-> d, proto |-> TCP] : d \in FragStreams(MaxFrags)}
    /\ index = 1
    /\ xid_map = NoMap
    /\ rpc = NewRPC(input.data, input.proto)
    /\ nfs = NoNfs
    /\ lastcall = NoMap

FragmentStep ==
    /\ op.name = "while"
    /\ \E r \in {fragment_step(rpc, buf)} :
           /\ rpc' = r.obj
           /\ buf' = r.save_data
           /\ op' = IF r.again THEN op ELSE [op EXCEPT !.name = "left"]
    /\ UNCHANGED <<input, index, xid_map, nfs, lastcall>>

NextFragments == FragmentStep

\* the loop is straight-line code of one thread: a pass that can be made is made
SpecFragments == InitFragments /\ [][NextFragments]_vars /\ WF_vars(FragmentStep)

\* the header on its own: the packet is given, the map is empty
InitHeader ==
    /\ buf = <<>>
    /\ op = NoOp
    /\ input \in HeaderInputs
    /\ index = 1
    /\ xid_map = NoMap
    /\ rpc = NoRPC
    /\ nfs = NoNfs
    /\ lastcall = NoMap

Construct ==
    /\ rpc.stage = "none"
    /\ RPCInit(input, index)
    /\ UNCHANGED <<buf, op, input, index>>

NextHeader == Construct \/ DecodeNfs

SpecHeader == InitHeader /\ [][NextHeader]_vars

(***************************************************************************)
(* A capture: packets are decoded one after the other, in capture order,   *)
(* against one xid map                                                     *)
(***************************************************************************)
MaxPackets == 3

Xids == {1, 2}

SessionCalls ==
    {CallWords(x, 2, t[1], t[2], t[3], cred, CredNone, Payload) :
        x \in Xids,
        t \in {<<NFS_PROGRAM, 4, 1>>, <<CB_PROGRAM, 1, 1>>},
        cred \in {CredNone, CredGss(0, 1), CredGss(3, 2)}}
    \cup {CallWords(1, 2, t[1], t[2], t[3], CredNone, CredNone, Payload) :
            t \in Triples}

SessionReplies ==
    {AcceptedWords(x, verf, 0, Payload) : x \in Xids, verf \in {CredNone, VerfGss}}
    \cup {DeniedWords(x, AUTH_ERROR, <<1>>) : x \in Xids}

\* messages that do not decode
SessionBad ==
    {CallWords(x, 3, 7, 4, 1, CredNone, CredNone, Payload) : x \in Xids}
    \cup {<<1, REPLY, 2>>, <<2, REPLY, MSG_ACCEPTED>>, <<1, CALL, 2>>}

SessionInputs ==
    {[data |-> WordsBytes(w), proto |-> UDP] :
        w \in SessionCalls \cup SessionReplies \cup SessionBad}
    \cup {[data |-> Frag(1, BaseReply), proto |-> TCP],
          [data |-> WordBytes(FragHdr(1, 0)) \o BaseCall, proto |-> TCP],
          [data |-> WordBytes(FragHdr(0, 0)) \o BaseCall, proto |-> TCP],
          [data |-> BaseCall, proto |-> 1]}

Init ==
    /\ buf = <<>>
    /\ op = NoOp
    /\ input = [data |-> <<>>, proto |-> 0]
    /\ index = 0
    /\ xid_map = NoMap
    /\ rpc = NoRPC
    /\ nfs = NoNfs
    /\ lastcall = NoMap

\* the next record of the capture is read and its RPC layer decoded
Packet ==
    /\ index < MaxPackets
    /\ \E pkt \in SessionInputs :
           /\ input' = pkt
           /\ index' = index + 1
           /\ RPCInit(pkt, index + 1)
    /\ UNCHANGED <<buf, op>>

Next == Packet \/ DecodeNfs

Spec == Init /\ [][Next]_vars

(***************************************************************************)
(* Properties                                                              *)
(***************************************************************************)
HeaderFields ==
    {"fragment_hdr", "xid", "type", "rpc_version", "program", "version",
     "procedure", "credential", "verifier", "reply_status", "accepted_status",
     "rejected_status", "auth_status"}

Abandoned == rpc.stage \in {"return", "raise"}
Decoded == rpc.stage = "decoded"

\* C1: a decoded REPLY whose xid had a decoded CALL earlier in the capture
\* carries program, version, procedure and call_index of the most recent such
\* CALL, call_index being the capture index of that call.
C1_ReplyCarriesLastCall ==
    (Decoded /\ rpc.type = REPLY /\ rpc.xid \in DOMAIN lastcall)
        => /\ {"program", "version", "procedure", "call_index"} \subseteq rpc.attrs
           /\ rpc.program = lastcall[rpc.xid].program
           /\ rpc.version = lastcall[rpc.xid].version
           /\ rpc.procedure = lastcall[rpc.xid].procedure
           /\ rpc.call_index = lastcall[rpc.xid].index

\* a reply to the second of two calls that used the same xid
C1_Witness ==
    /\ Decoded /\ rpc.type = REPLY /\ index = 3
    /\ rpc.xid \in DOMAIN lastcall
    /\ rpc.call_index = 2 /\ rpc.program = CB_PROGRAM
    /\ xid_map[rpc.xid].reply_index = 3

\* C2: a decoded REPLY whose xid had no decoded CALL earlier in the capture
\* has no program, version or procedure, and decode_nfs on it returns None
\* without raising and without calling an entry point of the NFS codec.
C2_UnknownReplyNoPayload ==
    (Decoded /\ rpc.type = REPLY /\ rpc.xid \notin DOMAIN lastcall)
        => /\ rpc.attrs \cap {"program", "version", "procedure"} = {}
           /\ nfs.called => (nfs.ret = "None" /\ ~nfs.raised /\ nfs.entry = "")

\* decode_nfs has run on a reply that came after an abandoned CALL of its xid
C2_Witness ==
    /\ Decoded /\ rpc.type = REPLY /\ rpc.xid \notin DOMAIN lastcall
    /\ index = 2 /\ nfs.called /\ Len(rpc.data) > 0

\* C3: a message is valid only if every discriminant on its path is a known
\* value: type CALL or REPLY; a CALL has rpc_version 2 and a credential; a
\* REPLY has reply_status MSG_ACCEPTED or MSG_DENIED, an accepted one a
\* verifier and a known accepted_status, a denied one rejected_status
\* RPC_MISMATCH or AUTH_ERROR and, for AUTH_ERROR, a known auth_status.
C3_ValidOnlyIfRecognized ==
    rpc.valid =>
        /\ "type" \in rpc.attrs /\ rpc.type \in {CALL, REPLY}
        /\ rpc.type = CALL =>
               /\ "rpc_version" \in rpc.attrs /\ rpc.rpc_version = 2
               /\ "credential" \in rpc.attrs /\ rpc.credential.state = "obj"
        /\ rpc.type = REPLY =>
               /\ "reply_status" \in rpc.attrs
               /\ rpc.reply_status \in {MSG_ACCEPTED, MSG_DENIED}
               /\ rpc.reply_status = MSG_ACCEPTED =>
                      /\ "verifier" \in rpc.attrs /\ rpc.verifier.state = "obj"
                      /\ "accepted_status" \in rpc.attrs
                      /\ rpc.accepted_status \in accept_stat
               /\ rpc.reply_status = MSG_DENIED =>
                      /\ "rejected_status" \in rpc.attrs
                      /\ rpc.rejected_status \in {RPC_MISMATCH, AUTH_ERROR}
                      /\ rpc.rejected_status = AUTH_ERROR =>
                             /\ "auth_status" \in rpc.attrs
                             /\ rpc.auth_status \in auth_stat

\* a valid denied reply that went through every discriminant of its branch
C3_Witness ==
    /\ rpc.valid /\ rpc.type = REPLY /\ rpc.reply_status = MSG_DENIED
    /\ rpc.rejected_status = AUTH_ERROR /\ rpc.auth_status = 5

\* C4: when the header decoding is abandoned, none of the header fields read
\* before that is an attribute of the message object.
C4_NoPartialHeader == Abandoned => rpc.attrs \cap HeaderFields = {}

\* C5: when the decoding is abandoned, the data buffer of the message is the
\* input the caller gave: nothing has been consumed.
C5_AbandonedKeepsInput == Abandoned => rpc.data = input.data

\* the records of a TCP stream as their sender laid them out: d is exactly
\* k >= 1 records, the last one marked last and none before it
RECURSIVE WholeRecords(_)
WholeRecords(d) ==
    /\ Len(d) >= 4
    /\ LET h == U32(Take(d, 4))
           rest == Drop(d, 4)
       IN  /\ Low31(h) <= Len(rest)
           /\ IF Top(h) = 1 THEN Low31(h) = Len(rest)
              ELSE WholeRecords(Drop(rest, Low31(h)))

\* the payloads of these records, in order, one after the other
RECURSIVE RecordPayloads(_)
RecordPayloads(d) ==
    LET h == U32(Take(d, 4))
        rest == Drop(d, 4)
    IN  IF Top(h) = 1 THEN Take(rest, Low31(h))
        ELSE Take(rest, Low31(h)) \o RecordPayloads(Drop(rest, Low31(h)))

\* C6: for TCP, when the buffer holds k >= 1 whole records, the first k-1 with
\* last_fragment = 0 and the k-th with last_fragment = 1, the message handed
\* to the header decoding is the k payloads in order, the k headers removed.
C6_ReassemblyConcatenates ==
    (input.proto = TCP /\ rpc.handed /\ WholeRecords(input.data))
        => rpc.msgbuf = RecordPayloads(input.data)

\* the bytes of the length field of a length spec, and the length it declares
\* when the buffer holds that field
LenField(ltype) ==
    IF ltype.kind = "int" THEN 0
    ELSE IF ltype.fn = "unpack_short" THEN 2
    ELSE IF ltype.fn = "unpack_char" THEN 1
    ELSE 4

Declared(pre, ltype) ==
    IF ltype.kind = "int" THEN ltype.n
    ELSE IF ltype.fn = "unpack_short" THEN U16(pre)
    ELSE IF ltype.fn = "unpack_char" THEN U8(pre)
    ELSE U32(pre)

\* the length spec of the call op made (unpack_opaque reads an unsigned int)
OpLType == IF op.name = "unpack_opaque" THEN Dyn("unpack_uint") ELSE op.ltype

\* the bytes the call needs the buffer to hold, and those it is to return
FixedWidth ==
    [unpack_char |-> 1, unpack_short |-> 2, unpack_uint |-> 4, unpack_uint64 |-> 8]

OpShort ==
    IF op.name \in DOMAIN FixedWidth THEN Len(op.pre) < FixedWidth[op.name]
    ELSE IF op.name \in {"rawdata", "unpack_fopaque"} THEN Len(op.pre) < op.size
    ELSE \/ Len(op.pre) < LenField(OpLType)
         \/ UGt(Declared(op.pre, OpLType), Len(op.pre) - LenField(OpLType))

OpRequested ==
    IF op.name \in {"rawdata", "unpack_fopaque"} THEN op.size
    ELSE Declared(op.pre, OpLType)

\* C7: every operation of the cursor (raw, the integers, opaque, fixed opaque,
\* string) fails when the buffer holds fewer bytes than it needs, a declared
\* length that exceeds the buffer included, and never returns fewer bytes
\* than were asked for.
C7_ShortReadsFail ==
    op.name \in {"rawdata", "unpack_char", "unpack_short", "unpack_uint",
                 "unpack_uint64", "unpack_opaque", "unpack_fopaque",
                 "unpack_string"}
        => /\ OpShort => op.raised
           /\ (~op.raised /\ op.name \notin DOMAIN FixedWidth)
                  => Len(op.out) = OpRequested

\* C8: when an operation of the cursor fails because the buffer is shorter
\* than the field it reads, the buffer after the failure is the buffer before
\* the call.
C8_FailureConsumesNothing ==
    (op.raised /\ op.why = "struct.error") => buf = op.pre

LimitError ==
    [unpack_opaque |-> "Opaque exceeds maximum length",
     unpack_string |-> "String exceeds maximum length",
     unpack_array |-> "Array exceeds maximum length"]

\* C9: opaque, string and array called with max > 0 fail on a declared length
\* or count above max, and then nothing after the length field has been
\* consumed and no item decoded; with max = 0 no limit is applied.
C9_LimitBeforeRead ==
    (op.name \in DOMAIN LimitError /\ Len(op.pre) >= LenField(OpLType))
        => /\ (op.maxcount > 0 /\ UGt(Declared(op.pre, OpLType), op.maxcount))
                  => /\ op.raised /\ op.why = LimitError[op.name]
                     /\ buf = Drop(op.pre, LenField(OpLType))
                     /\ op.out = <<>> /\ op.items = <<>>
           /\ (op.maxcount = 0 \/ ~UGt(Declared(op.pre, OpLType), op.maxcount))
                  => op.why # LimitError[op.name]

\* an array of two items, with bytes for them in the buffer, refused for
\* max = 1 when only its count had been read
C9_Witness ==
    /\ op.name = "unpack_array" /\ op.maxcount = 1 /\ op.raised
    /\ op.why = "Array exceeds maximum length"
    /\ op.ltype = Dyn("unpack_short") /\ Len(op.pre) = 12 /\ Len(buf) = 10

\* C10: when the NFS codec raises during decode_nfs on a decoded message,
\* decode_nfs returns None without raising, the message stays valid, and its
\* header fields and data buffer are what they were before the call.
C10_CodecFailureIsolated ==
    (nfs.called /\ nfs.codec_raised /\ nfs.before.valid)
        => /\ nfs.ret = "None" /\ ~nfs.raised
           /\ rpc.valid
           /\ rpc = nfs.before

\* the codec raised on the payload of a decoded reply
C10_Witness ==
    /\ nfs.called /\ nfs.codec_raised /\ nfs.before.valid
    /\ rpc.type = REPLY /\ nfs.entry = "unpack_COMPOUND4res"
    /\ Len(rpc.data) > 0

\* the entry point decode_nfs is to call on the message o, "" for none
EntryFor(o) ==
    LET cb == o.program >= CB_LOW /\ o.program < CB_HIGH
        dispatch == /\ o.procedure = 1
                    /\ \/ o.program = NFS_PROGRAM /\ o.version = 4
                       \/ cb /\ o.version = 1
    IN  IF ~dispatch THEN ""
        ELSE IF o.type = CALL
        THEN IF cb THEN "unpack_CB_COMPOUND4args" ELSE "unpack_COMPOUND4args"
        ELSE IF cb THEN "unpack_CB_COMPOUND4res" ELSE "unpack_COMPOUND4res"

\* C11: decode_nfs on a message that has program, version and procedure and
\* a non-empty buffer calls the one entry point its type and program select
\* (program 100003: not a callback; 0x40000000 <= program < 0x60000000: a
\* callback) when procedure is 1 and version is 4, or 1 for a callback, and
\* calls no entry point for any other program, version or procedure.
C11_EntryPointSelected ==
    (/\ nfs.called
     /\ {"program", "version", "procedure"} \subseteq nfs.before.attrs
     /\ Len(nfs.before.data) > 0)
        => /\ nfs.before.type \in {CALL, REPLY}
           /\ nfs.entry = EntryFor(nfs.before)

\* the reply to a call of program 0x50000001 went to the callback decoder
C11_Witness ==
    /\ nfs.called /\ nfs.before.type = REPLY /\ nfs.before.program = CB_PROGRAM
    /\ Len(nfs.before.data) > 0 /\ nfs.entry = "unpack_CB_COMPOUND4res"

\* a call of a program that is neither NFS nor a callback went to no decoder
C11_WitnessOther ==
    /\ nfs.called /\ nfs.before.type = CALL /\ nfs.before.program = 7
    /\ nfs.before.version = 1 /\ nfs.before.procedure = 1
    /\ Len(nfs.before.data) > 0 /\ nfs.entry = ""

\* C12: every call of decode_nfs invokes both hooks of the security layer,
\* decode_gss_data first and decode_gss_checksum after the dispatch, on every
\* path through the method.
C12_BothHooksAlways ==
    nfs.called => nfs.hooks = <<"decode_gss_data", "decode_gss_checksum">>

\* d starts with a whole list of unsigned integers: flag, item, ..., flag 0
RECURSIVE WholeList(_)
WholeList(d) ==
    /\ Len(d) >= 4
    /\ \/ U32(Take(d, 4)) = 0
       \/ Len(d) >= 8 /\ WholeList(Drop(d, 8))

\* the items of that list in the order they lie in d, and the bytes it takes
RECURSIVE ListItems(_)
ListItems(d) ==
    IF U32(Take(d, 4)) = 0 THEN <<>>
    ELSE << <<U32(SubSeq(d, 5, 8))>> >> \o ListItems(Drop(d, 8))

RECURSIVE ListBytes(_)
ListBytes(d) == IF U32(Take(d, 4)) = 0 THEN 4 ELSE 8 + ListBytes(Drop(d, 8))

UintList ==
    /\ op.name = "unpack_list" /\ op.item.fn = "unpack_uint"
    /\ op.ltype = Dyn("unpack_uint")

\* C13: unpack_list with unsigned integers as items and as flag stops at the
\* first flag that is zero, takes every other flag for "one more item",
\* returns the items in the order of the buffer, and leaves the buffer right
\* after the zero flag; a first flag of zero gives the empty list with only
\* that flag consumed.
C13_ListStopsAtZero ==
    (UintList /\ WholeList(op.pre))
        => /\ ~op.raised /\ op.why = ""
           /\ op.items = ListItems(op.pre)
           /\ buf = Drop(op.pre, ListBytes(op.pre))
           /\ U32(Take(op.pre, 4)) = 0
                  => (op.items = <<>> /\ buf = Drop(op.pre, 4))

\* the list 7, 9 read behind a flag with its top bit set and a flag 2, the
\* word behind the list left in the buffer
C13_Witness ==
    /\ UintList /\ Len(op.pre) = 24 /\ U32(Take(op.pre, 4)) = TopWord
    /\ op.items = << <<7>>, <<9>> >> /\ buf = WordBytes(5)
    /\ U32(SubSeq(op.pre, 9, 12)) = 2

\* an array of unsigned integers whose count is within the limit given and
\* whose items are all in the buffer
UintArray ==
    /\ op.name = "unpack_array" /\ op.item.fn = "unpack_uint"
    /\ Len(op.pre) >= LenField(op.ltype)
    /\ Declared(op.pre, op.ltype) >= 0
    /\ Declared(op.pre, op.ltype) <= (Len(op.pre) - LenField(op.ltype)) \div 4
    /\ (op.maxcount = 0 \/ Declared(op.pre, op.ltype) <= op.maxcount)

\* C14: unpack_array with an integer n as length spec and unsigned integers
\* as items reads no count, decodes exactly n items in the order of the
\* buffer and consumes 4 * n bytes; with a decoder as length spec it consumes
\* the count first and then decodes exactly that many items.
C14_ArrayReadsCountItems ==
    UintArray =>
        LET n == Declared(op.pre, op.ltype)
            lf == LenField(op.ltype)
        IN  /\ ~op.raised
            /\ op.ltype.kind = "int" => lf = 0
            /\ Len(op.items) = n
            /\ \A i \in 1 .. n :
                   op.items[i] = <<U32(SubSeq(op.pre, lf + 4 * i - 3, lf + 4 * i))>>
            /\ buf = Drop(op.pre, lf + 4 * n)

\* the fixed count 2 over the bytes of 7, 9 and one more word: 8 bytes read
C14_Witness ==
    /\ op.name = "unpack_array" /\ op.item.fn = "unpack_uint"
    /\ op.ltype = Fixed(2) /\ op.pre = WordsBytes(<<7, 9, 5>>)
    /\ op.items = << <<7>>, <<9>> >> /\ Len(op.pre) - Len(buf) = 8

\* the packet pkt is a TCP buffer whose first record-marking header has the
\* size zero
ZeroSize(pkt) ==
    /\ pkt.proto = TCP /\ Len(pkt.data) >= 4
    /\ Low31(U32(Take(pkt.data, 4))) = 0

\* C15: the decoding of a TCP buffer whose record-marking header gives the
\* size zero stops without an exception: the message is not valid, neither
\* xid nor type has been read (only the header is consumed), and the xid map
\* is what it was before the packet.
C15_ZeroSizeNoMessage ==
    [][(index' # index /\ ZeroSize(input'))
           => /\ rpc'.stage = "return" /\ ~rpc'.valid
              /\ rpc'.attrs \cap {"xid", "type"} = {}
              /\ rpc'.data = Drop(input'.data, 4)
              /\ xid_map' = xid_map]_vars

\* a header of size zero met after a call had been recorded in the xid map
C15_Witness ==
    /\ index >= 2 /\ ZeroSize(input) /\ rpc.stage = "return"
    /\ DOMAIN xid_map # {} /\ "fragment_hdr" \in rpc.attrs

\* C16: a CALL whose verifier the credential decoder returned None for is
\* abandoned, whatever the flavor of its credential: no decoded CALL has a
\* verifier that is None.
C16_CallNeedsVerifier ==
    (Decoded /\ rpc.type = CALL)
        => ("verifier" \in rpc.attrs /\ rpc.verifier.state = "obj")

\* c is a Credential of a flavor _rpc_credential has no layout for
OtherFlavor(c) == c.state = "obj" /\ c.flavor \notin {AUTH_SYS, RPCSEC_GSS}

\* C17: the credential decoder returns None when the size it reads exceeds
\* the bytes left after the size field, so the data of every Credential of
\* another flavor, credential or verifier, is exactly size bytes long.
C17_OtherFlavorDataIsSize ==
    /\ ("credential" \in rpc.attrs /\ OtherFlavor(rpc.credential))
           => Len(rpc.credential.data) = rpc.credential.size
    /\ ("verifier" \in rpc.attrs /\ OtherFlavor(rpc.verifier))
           => Len(rpc.verifier.data) = rpc.verifier.size

\* C18: after a decoded REPLY whose xid has a decoded CALL earlier in the
\* capture, the entry of that xid holds reply_index, equal to the capture
\* index of the reply, whatever the reply (accepted or denied) and whatever
\* the flavor of the credential of the call.
C18_ReplyIndexRecorded ==
    (Decoded /\ rpc.type = REPLY /\ rpc.xid \in DOMAIN lastcall)
        => /\ rpc.xid \in DOMAIN xid_map
           /\ "reply_index" \in xid_map[rpc.xid].keys
           /\ xid_map[rpc.xid].reply_index = index

\* C19: the xid map holds an entry for an xid only if a CALL of that xid was
\* decoded earlier in the capture; a decoded REPLY of an xid never seen adds
\* no entry.
C19_EntriesComeFromCalls == DOMAIN xid_map \subseteq DOMAIN lastcall

\* C20: a packet whose decoding is abandoned (a transport that is neither
\* TCP nor UDP, a record-marking header of size zero, a truncated header, an
\* unknown discriminant) leaves the xid map exactly as it was before it.
C20_AbandonedKeepsMap ==
    [][(index' # index /\ rpc'.stage \in {"return", "raise"})
           => xid_map' = xid_map]_vars

\* a CALL abandoned for its rpc_version, its xid already in the xid map
C20_Witness ==
    /\ Abandoned /\ index >= 2 /\ "rpc_version" \in rpc.attrs
    /\ rpc.type = CALL /\ rpc.rpc_version = 3 /\ rpc.xid \in DOMAIN xid_map
    /\ "call_index" \in xid_map[rpc.xid].keys

GssFields == {"gss_proc", "gss_service", "gss_version"}

\* C21: on a decoded accepted REPLY whose xid has a decoded CALL earlier in
\* the capture, the verifier of the reply carries gss_proc, gss_service and
\* gss_version exactly when the credential of the most recent such CALL is of
\* flavor RPCSEC_GSS, and then with the values of that credential.
C21_GssFieldsFromLastCall ==
    (/\ Decoded /\ rpc.type = REPLY /\ rpc.reply_status = MSG_ACCEPTED
     /\ rpc.xid \in DOMAIN lastcall)
        => LET c == lastcall[rpc.xid].credential
           IN  IF c.flavor = RPCSEC_GSS
               THEN /\ GssFields \subseteq rpc.verifier.attrs
                    /\ rpc.verifier.gss_proc = c.gss_proc
                    /\ rpc.verifier.gss_service = c.gss_service
                    /\ rpc.verifier.gss_version = c.gss_version
               ELSE rpc.verifier.attrs \cap GssFields = {}

\* the reply to the second call of the capture, whose credential had
\* gss_proc 3 and gss_service 2, both copied onto the verifier
C21_Witness ==
    /\ Decoded /\ rpc.type = REPLY /\ rpc.reply_status = MSG_ACCEPTED
    /\ index = 3 /\ rpc.xid \in DOMAIN lastcall /\ rpc.call_index = 2
    /\ GssFields \subseteq rpc.verifier.attrs
    /\ rpc.verifier.gss_proc = 3 /\ rpc.verifier.gss_service = 2

\* the message o is not one decode_nfs is to hand to the codec: its program
\* is neither 100003 nor of the transient range, or its procedure and
\* version are not those of a COMPOUND
NotCompound(o) ==
    \/ o.program # NFS_PROGRAM /\ ~(o.program >= CB_LOW /\ o.program < CB_HIGH)
    \/ o.procedure # 1
    \/ o.program = NFS_PROGRAM /\ o.version # 4
    \/ o.program # NFS_PROGRAM /\ o.version # 1

\* C22: decode_nfs on a message whose program is neither 100003 nor within
\* [0x40000000, 0x60000000), or whose procedure and version do not select a
\* COMPOUND, returns None, calls no decoder and leaves the data buffer of the
\* message as it was.
C22_NotNfsKeepsData ==
    (/\ nfs.called
     /\ {"program", "version", "procedure"} \subseteq nfs.before.attrs
     /\ NotCompound(nfs.before))
        => /\ nfs.ret = "None" /\ ~nfs.raised /\ nfs.entry = ""
           /\ rpc.data = nfs.before.data

\* decode_nfs ran on the reply to a call of program 7, payload in its buffer
C22_Witness ==
    /\ nfs.called /\ nfs.before.type = REPLY /\ Decoded
    /\ {"program", "version", "procedure"} \subseteq nfs.before.attrs
    /\ nfs.before.program = 7 /\ nfs.before.data = WordsBytes(Payload)
    /\ nfs.ret = "None" /\ rpc.data = nfs.before.data

\* C23: in every state of the xid map, an entry that holds both call_index
\* and reply_index has reply_index > call_index: the reply recorded in the
\* entry came after the call recorded in it, also when a later decoded CALL
\* has used the same xid again.
C23_ReplyAfterCall ==
    \A x \in DOMAIN xid_map :
        {"call_index", "reply_index"} \subseteq xid_map[x].keys
            => xid_map[x].reply_index > xid_map[x].call_index

\* C24: decode_nfs calls an entry point of the NFS codec only on a message
\* whose header was decoded (its validity flag is true); on an abandoned
\* message it calls none and returns None.
C24_CodecOnlyWhenDecoded ==
    nfs.called
        => IF nfs.before.valid
           THEN TRUE
           ELSE nfs.entry = "" /\ nfs.ret = "None"

\* C25: the loop over the record-marking headers of a TCP buffer ends for
\* every buffer: each pass either leaves the loop (size zero, last fragment,
\* a fragment not smaller than what is left, a header cut short) or leaves
\* the buffer strictly shorter than it found it, however many fragments that
\* are not the last come one after the other.
C25_FragmentLoopTerminates ==
    /\ <>(op.name = "left")
    /\ [][op.name = "while"
             => \/ op'.name = "left"
                \/ Len(rpc'.data) < Len(rpc.data)]_vars

\* the loop was left on a header cut short after two fragments were saved,
\* the second of a header of size 0
C25_Witness ==
    /\ op.name = "left" /\ rpc.stage = "raise"
    /\ Len(buf) = 2 /\ Len(input.data) = 13

\* C26: every call of unpack_array and of unpack_list on a buffer comes to
\* an end, with its items or with an exception, whatever the length or
\* continuation argument (an integer or a decoder) and the item decoder
\* (unpack_uint, unpack_opaque, unpack_string of a decoded or of a fixed
\* length), a list continued by a fixed nonzero integer included.
C26_ArrayAndListEnd ==
    op.name \in {"unpack_array", "unpack_list"} => op.why # "loops"

====
